---- MODULE Spec2Model ----
(***************************************************************************)
(* Model of MultiDayTestShape (multi_day_test_shape.py): a locust load     *)
(* shape whose tick() maps the time elapsed since the start of the test    *)
(* to (desired users, spawn rate), or to None once run_duration is over.   *)
(*                                                                         *)
(* Time is the reading of time.perf_counter() - start_time, in seconds.    *)
(* The clock is observed on a grid of ClockStep seconds.  Floats are       *)
(* fixed-point numbers with Scale units per 1.0; on the clock grid every   *)
(* division of the code (/60, /60, /24) is exact in this representation.   *)
(* tick() reads the clock five times (guard, hour, and three times         *)
(* days_since_ref_dt); the clock may advance between any two reads.        *)
(***************************************************************************)
EXTENDS Integers, Sequences, FiniteSets

VARIABLES
    now,            \* time.perf_counter() - self.start_time, seconds
    run_duration,   \* self.run_duration.total_seconds()
    e_guard,        \* clock read by the guard of the last tick
    e_hour,         \* clock read by self.hour in the last tick
    e_d1,           \* clock read by the 1st days_since_ref_dt (growth term)
    e_d2,           \* clock read by the 2nd days_since_ref_dt (minuend)
    e_d3,           \* clock read by the 3rd days_since_ref_dt (under floor)
    result,         \* what the last tick returned
    prevKind        \* kind of what the tick before the last one returned

vars == <<now, run_duration, e_guard, e_hour, e_d1, e_d2, e_d3, result, prevKind>>

----------------------------------------------------------------------------
(* Bounds *)

\* the clock is not advanced past this many hours
MaxElapsedHours == 73

\* the clock advances at most this many grid steps during one tick
MaxDrift == 1

----------------------------------------------------------------------------
(* Numbers *)

\* fixed-point resolution of a float: units per 1.0 (a multiple of 24)
Scale == 24 * 10000

\* spacing of the observed clock readings, seconds
ClockStep == 60 * 60

SecondsPerDay == 24 * 60 * 60

\* Scale * sin(k*pi/24), k = 0..12, to the nearest unit
SinTable == <<0, 31326, 62117, 91844, 120000, 146103, 169706,
              190405, 207846, 221731, 231822, 237947, 240000>>

\* math.sin at the angle k*pi/24, any integer k
SinAt(k) ==
    LET m == k % 48
        h == IF m >= 24 THEN m - 24 ELSE m
        q == IF h > 12 THEN 24 - h ELSE h
        v == SinTable[q + 1]
    IN  IF m >= 24 THEN 0 - v ELSE v

\* sin(x * pi) for the fixed-point x (a multiple of 1/24 on the clock grid)
SinPi(x) == SinAt((x * 24) \div Scale)

\* math.floor of a fixed-point number, an integer
floor(x) == x \div Scale

roundHalfUp(x) == (2 * x + Scale) \div (2 * Scale)

\* the builtin round() of a float: to the nearest integer, ties to even
round(x) ==
    LET q == x \div Scale
        r == x % Scale
    IN  IF 2 * r < Scale THEN q
        ELSE IF 2 * r > Scale THEN q + 1
        ELSE IF q % 2 = 0 THEN q ELSE q + 1

max(a, b) == IF a >= b THEN a ELSE b

----------------------------------------------------------------------------
(* Configuration *)

\* reference_dt = datetime(2025, 6, 15, 12), as seconds after its midnight
reference_dt == 12 * 60 * 60

\* run_duration = timedelta(days=2, hours=12), in seconds
DefaultRunDuration == (2 * 24 + 12) * 60 * 60

\* the values run_duration is configured with: the default, zero, negative
RunDurations == {DefaultRunDuration, 0, 0 - ClockStep}

----------------------------------------------------------------------------
(* Properties of the class; e is the clock reading the property makes *)

\* seconds after the reference day's midnight
_current_dt(e) == reference_dt + e

hour(e) == (_current_dt(e) \div 3600) % 24

\* total_seconds() / 60; Scale is a multiple of 60
minutes_since_ref_dt(e) == (_current_dt(e) - reference_dt) * (Scale \div 60)

hours_since_ref_dt(e) == minutes_since_ref_dt(e) \div 60

days_since_ref_dt(e) == hours_since_ref_dt(e) \div 24

----------------------------------------------------------------------------
(* tick *)

Done == [kind |-> "Done", users |-> 0, rate |-> 0]

NoTick == [kind |-> "Init", users |-> 0, rate |-> 0]

RunDurationExceededGE(e, rd) == e >= rd

\* the guard of tick
RunDurationExceeded(e, rd) == e > rd

PeakHours3 == {12, 13, 18}

PeakHours == {12, 13, 18, 19}

extra_usersNoon(eh) == IF hour(eh) \in PeakHours3 THEN 15 ELSE 0

extra_users(eh) == IF hour(eh) \in PeakHours THEN 15 ELSE 0

DailyGrowthDown(e1) == 0 - 5 * days_since_ref_dt(e1)

\* 5 * self.days_since_ref_dt
DailyGrowth(e1) == 5 * days_since_ref_dt(e1)

\* self.days_since_ref_dt - floor(self.days_since_ref_dt), two clock reads
DayFraction(e2, e3) == days_since_ref_dt(e2) - floor(days_since_ref_dt(e3)) * Scale

\* 10 * sin((...) * pi)
Wave(e2, e3) == 10 * SinPi(DayFraction(e2, e3))

desired_users(eh, e1, e2, e3) ==
    DailyGrowth(e1) + Wave(e2, e3) + 10 * Scale + extra_users(eh) * Scale

TargetSwapped(d) == [kind |-> "Target", users |-> 100, rate |-> max(0, round(d))]

\* return max([0, round(desired_users)]), 100
Target(d) == [kind |-> "Target", users |-> max(0, round(d)), rate |-> 100]

\* the value of tick for the five clock readings it makes
TickValue(eg, eh, e1, e2, e3, rd) ==
    IF RunDurationExceeded(eg, rd) THEN Done
    ELSE Target(desired_users(eh, e1, e2, e3))

\* tick when the clock stands still at e during the call
TickAt(e, rd) == TickValue(e, e, e, e, e, rd)

----------------------------------------------------------------------------
(* State machine *)

ClockNextWall(t) == {t + ClockStep} \cup (IF t >= ClockStep THEN {t - ClockStep} ELSE {})

\* readings a monotonic clock can show next
ClockNext(t) == {t + ClockStep}

Drifts == {k * ClockStep : k \in 0..MaxDrift}

Init ==
    /\ now = 0
    /\ run_duration \in RunDurations
    /\ e_guard = 0 /\ e_hour = 0 /\ e_d1 = 0 /\ e_d2 = 0 /\ e_d3 = 0
    /\ result = NoTick
    /\ prevKind = "Init"

\* time passes between two calls of tick
Advance ==
    /\ \E t \in ClockNext(now) :
         /\ t <= MaxElapsedHours * ClockStep
         /\ now' = t
    /\ UNCHANGED <<run_duration, e_guard, e_hour, e_d1, e_d2, e_d3, result, prevKind>>

\* one call of tick by the runner
tick ==
    \E a \in Drifts, b \in Drifts, c \in Drifts, d \in Drifts :
        LET eg == now
            eh == eg + a
            e1 == eh + b
            e2 == e1 + c
            e3 == e2 + d
        IN  /\ e3 <= eg + MaxDrift * ClockStep
            /\ prevKind' = result.kind
            /\ e_guard' = eg
            /\ UNCHANGED run_duration
            /\ IF RunDurationExceeded(eg, run_duration)
               THEN /\ result' = Done
                    /\ e_hour' = eg /\ e_d1' = eg /\ e_d2' = eg /\ e_d3' = eg
                    /\ now' = eg
               ELSE /\ result' = TickValue(eg, eh, e1, e2, e3, run_duration)
                    /\ e_hour' = eh /\ e_d1' = e1 /\ e_d2' = e2 /\ e_d3' = e3
                    /\ now' = e3

Next == Advance \/ tick

Spec == Init /\ [][Next]_vars

----------------------------------------------------------------------------
(* Observations of the last tick *)

\* a tick has been made
Ticked == result.kind # "Init"

\* the last tick was the first one of the run
FirstTick == Ticked /\ prevKind = "Init"

\* the clock stood still during the last tick: every read returned e_guard
Atomic == e_hour = e_guard /\ e_d1 = e_guard /\ e_d2 = e_guard /\ e_d3 = e_guard

\* what the last tick returned, as the pair tick returns
Returned == <<result.users, result.rate>>

\* a day count for the growth comparison
MaxDays == 3

\* the closed formula for the elapsed time e (a multiple of ClockStep):
\* d = e/86400, f = d - floor(d), x = 15 in the hours 12, 13, 18, 19
ShapeFormula(e) ==
    LET d == (e \div 3600) * (Scale \div 24)
        f == d % Scale
        h == (12 + (e \div 3600)) % 24
        x == IF h \in {12, 13, 18, 19} THEN 15 ELSE 0
        v == 5 * d + 10 * SinPi(f) + 10 * Scale + x * Scale
    IN  <<max(0, round(v)), 100>>

----------------------------------------------------------------------------
(* Claims *)

\* C1: a tick during which the clock reads e, 0 <= e <= run_duration, returns
\* (max(0, round(5*d + 10*sin(f*pi) + 10 + x)), 100); with the default
\* reference_dt, e = 0 gives (25, 100).
C1_Formula ==
    /\ (Ticked /\ e_guard >= 0 /\ e_guard <= run_duration) => result.kind = "Target"
    /\ (result.kind = "Target" /\ Atomic) => Returned = ShapeFormula(e_guard)
    /\ (result.kind = "Target" /\ Atomic /\ e_guard = 0) => Returned = <<25, 100>>

\* C1 witness: a tick at exactly run_duration (not past it), the clock still;
\* 2.5 days give 12.5 + 10 + 10 = 32.5, rounded to 32
C1_Witness ==
    /\ result.kind = "Target" /\ Atomic
    /\ run_duration = DefaultRunDuration /\ e_guard = run_duration
    /\ Returned = <<32, 100>>

\* C2 as stated: every tick whose elapsed time is >= run_duration, equality
\* included, returns None.
C2_Original == (Ticked /\ e_guard >= run_duration) => result = Done

\* C2 amended: every tick whose elapsed time is > run_duration returns None;
\* a tick at exactly run_duration returns a target; 3 days with the default
\* run_duration returns None.
C2_Amended ==
    /\ (Ticked /\ e_guard > run_duration) => result = Done
    /\ (Ticked /\ e_guard = run_duration) => result.kind = "Target"

\* C2 witness: the tick at 3 days under the default run_duration
C2_Witness ==
    /\ run_duration = DefaultRunDuration /\ e_guard = 3 * SecondsPerDay
    /\ result = Done

\* C3: None is terminal: after a tick has returned None, every later tick
\* returns None.
C3_DoneIsTerminal == [][result.kind = "Done" => result'.kind = "Done"]_vars

\* C3 witness: under the default run_duration, a tick returned None after the
\* tick before it had returned None
C3_Witness ==
    /\ run_duration = DefaultRunDuration
    /\ prevKind = "Done" /\ result.kind = "Done"

\* C4: every tick with elapsed < run_duration returns a target, and every
\* target has a non-negative integer number of users and spawn rate 100.
C4_TargetShape ==
    /\ (Ticked /\ e_guard < run_duration) => result.kind = "Target"
    /\ result.kind = "Target" => (result.users \in Nat /\ result.rate = 100)

\* C4 witness: a target returned by a tick during which the clock advanced
C4_Witness == result.kind = "Target" /\ e_d3 > e_guard /\ result.users > 0

\* C5: whatever the clock does between the reads of a tick, the tick returns
\* the value of the formula at the elapsed time read by its guard.
C5_PureFunction == Ticked => result = TickAt(e_guard, run_duration)

\* C6 as stated: default configuration, elapsed 12h: hour 0, no extra users,
\* desired 22.5, tick returns (23, 100).
C6_Original ==
    (run_duration = DefaultRunDuration /\ Ticked /\ Atomic /\ e_guard = 12 * 3600)
        => /\ hour(e_hour) = 0
           /\ extra_users(e_hour) = 0
           /\ 2 * desired_users(e_hour, e_d1, e_d2, e_d3) = 45 * Scale
           /\ Returned = <<23, 100>>

\* C6 amended: default configuration, elapsed 12h: hour 0, no extra users,
\* desired 22.5, tick returns (22, 100), round() rounding a half to even.
C6_Amended ==
    (run_duration = DefaultRunDuration /\ Ticked /\ Atomic /\ e_guard = 12 * 3600)
        => /\ hour(e_hour) = 0
           /\ extra_users(e_hour) = 0
           /\ 2 * desired_users(e_hour, e_d1, e_d2, e_d3) = 45 * Scale
           /\ Returned = <<22, 100>>

\* C6 witness: the tick at 12h with the clock still
C6_Witness ==
    /\ run_duration = DefaultRunDuration /\ Atomic /\ e_guard = 12 * 3600
    /\ result.kind = "Target"

\* C7: with the default reference_dt the wave term is 10 in the ticks whose
\* virtual time reads hour 12 and 0 in the ticks at virtual midnight.
C7_WavePeakAtNoon ==
    (result.kind = "Target" /\ Atomic)
        => /\ hour(e_hour) = 12 => Wave(e_d2, e_d3) = 10 * Scale
           /\ hour(e_hour) = 0 => Wave(e_d2, e_d3) = 0

\* C8 as stated: with run_duration <= 0 the first tick returns None whatever
\* the clock reads, 0 included.
C8_Original == (FirstTick /\ run_duration <= 0) => result = Done

\* C8 amended: with run_duration < 0 the first tick returns None whatever the
\* clock reads; with run_duration = 0 it returns None when the clock reads
\* more than 0, and the target (25, 100) when the clock reads exactly 0.
C8_Amended ==
    /\ (FirstTick /\ run_duration < 0) => result = Done
    /\ (FirstTick /\ run_duration = 0 /\ e_guard > 0) => result = Done
    /\ (FirstTick /\ run_duration = 0 /\ e_guard = 0 /\ Atomic)
           => (result.kind = "Target" /\ Returned = <<25, 100>>)

\* C8 witness: run_duration zero, the first tick made after the clock moved
C8_Witness == FirstTick /\ run_duration = 0 /\ e_guard > 0 /\ result = Done

\* C9: a tick at e + k whole days returns at least as many users as the tick
\* at e, whenever both return a target.
C9_GrowthMonotone ==
    (result.kind = "Target" /\ Atomic)
        => \A k \in 0..MaxDays :
              LET later == TickAt(e_guard + k * SecondsPerDay, run_duration)
              IN  later.kind = "Target" => later.users >= result.users

\* C9 witness: the tick at 12h (22 users, a rounded half); 12h + 2 days is
\* still within the default run_duration and gives more users
C9_Witness ==
    /\ result.kind = "Target" /\ Atomic /\ e_guard = 12 * 3600
    /\ TickAt(e_guard + 2 * SecondsPerDay, run_duration).kind = "Target"
    /\ TickAt(e_guard + 2 * SecondsPerDay, run_duration).users > result.users

\* C10: in every tick that returns a target the day fraction given to the
\* sine lies in [0, 1) and the wave term in [0, 10].
C10_DayFractionInUnit ==
    result.kind = "Target"
        => /\ DayFraction(e_d2, e_d3) >= 0
           /\ DayFraction(e_d2, e_d3) < Scale
           /\ Wave(e_d2, e_d3) >= 0
           /\ Wave(e_d2, e_d3) <= 10 * Scale

====
